---- MODULE Spec2Model ----
(***************************************************************************)
(* A model of the Majorana measurement helpers:                            *)
(*   - reload_settings.py : ConfigFile (a ConfigParser kept in memory and  *)
(*     written through to 'sample.config'), used_channels,                 *)
(*     check_unused_qdac_channels, get_conductance, set_ranges,            *)
(*     bias_channels, qdac_slopes;                                         *)
(*   - customised_instruments.py : ConductanceBuffer, SR830_T3,            *)
(*     Decadac_T3.                                                         *)
(*                                                                         *)
(* Strings are sequences of one-character strings, so that stripping,      *)
(* splitting, interpolation and number parsing are computed character by   *)
(* character as the Python code (and the ConfigParser it calls) does.      *)
(* Real numbers are exact rationals <<numerator, denominator>>.            *)
(***************************************************************************)
EXTENDS Integers, Sequences, FiniteSets, TLC

VARIABLES
    cfg,        \* ConfigFile._cfg : section -> (option -> raw value)
    file,       \* the backing file : section -> (option -> text after "option = ")
    last,       \* the last ConfigFile call and how it ended
    nOps,       \* number of ConfigFile / external-writer steps taken so far
    ext,        \* ghost: fields an external writer changed since the last load
    setLog,     \* ghost: value handed to the last set of each field (single writer)
    single,     \* ghost: only set has touched the file since construction
    rt,         \* ghost: the last completed set, while nothing else wrote since
    sr,         \* a lock-in: display of channel 1, signal, amplitude, factors
    gres,       \* the last conductance read: its path and what the caller got
    validators, \* the validator of every QDac channel and of every divider
    rres,       \* the last set_ranges call: its argument, outcome, state before
    volt,       \* Decadac channel -> voltage, in units of 0.01 V
    cres,       \* the last read of the cutters and what the caller got
    latest,     \* QDac channel -> get_latest() of its voltage
    ures,       \* the last check_unused_qdac_channels run
    qres        \* the last qdac_slopes call and what it returned

cfgVars == <<cfg, file, last, nOps, ext, setLog, single, rt>>

srVars == <<sr, gres>>

rgVars == <<validators, rres>>

ctVars == <<volt, cres>>

unVars == <<latest, ures>>

slVars == <<qres>>

instrVars == <<srVars, rgVars, ctVars, unVars, slVars>>

vars == <<cfgVars, instrVars>>

----------------------------------------------------------------------------
(* Bounds of the model *)

\* number of ConfigFile / external-writer operations explored
MaxOps == 3

----------------------------------------------------------------------------
(* Character strings *)

IsSpace(c) == c \in {" ", "\t"}

RECURSIVE LStrip(_)
LStrip(s) ==
    IF s = <<>> THEN <<>>
    ELSE IF IsSpace(Head(s)) THEN LStrip(Tail(s))
    ELSE s

RECURSIVE RStrip(_)
RStrip(s) ==
    IF s = <<>> THEN <<>>
    ELSE IF IsSpace(s[Len(s)]) THEN RStrip(SubSeq(s, 1, Len(s) - 1))
    ELSE s

\* str.strip() as ConfigParser._read applies it to an option's value
Strip(s) == RStrip(LStrip(s))

LowerChar(c) ==
    CASE c = "F" -> "f"
      [] c = "G" -> "g"
      [] OTHER -> c

\* ConfigParser.optionxform : option names are lower-cased
optionxform(s) == [i \in 1..Len(s) |-> LowerChar(s[i])]

Digits == <<"0", "1", "2", "3", "4", "5", "6", "7", "8", "9">>

DigitChar(d) == Digits[d + 1]

IsDigit(c) == \E d \in 0..9 : DigitChar(d) = c

DigitVal(c) == CHOOSE d \in 0..9 : DigitChar(d) = c

\* '{}'.format(n) / str(n) of a non-negative integer
RECURSIVE FormatNat(_)
FormatNat(n) ==
    IF n < 10 THEN <<DigitChar(n)>>
    ELSE FormatNat(n \div 10) \o <<DigitChar(n % 10)>>

FormatInt(n) == IF n < 0 THEN <<"-">> \o FormatNat(0 - n) ELSE FormatNat(n)

----------------------------------------------------------------------------
(* Python values handed to ConfigFile: a str, an int, or None *)

StrV(s) == [t |-> "str", s |-> s, n |-> 0]

IntV(n) == [t |-> "int", s |-> <<>>, n |-> n]

NoneV == [t |-> "none", s |-> <<>>, n |-> 0]

\* '{}'.format(x)
Format(x) == IF x.t = "int" THEN FormatInt(x.n) ELSE x.s

\* results of a call: a returned value or the exception raised
Ok(v) == [ok |-> TRUE, err |-> "", val |-> v]

Raise(e) == [ok |-> FALSE, err |-> e, val |-> <<>>]

----------------------------------------------------------------------------
(* Finite maps (dicts) *)

EmptyMap == <<>>

Put(f, k, v) == [x \in (DOMAIN f) \cup {k} |-> IF x = k THEN v ELSE f[x]]

Drop(f, k) == [x \in (DOMAIN f) \ {k} |-> f[x]]

----------------------------------------------------------------------------
(* ConfigParser's BasicInterpolation, as used by ConfigParser()             *)
(* (the alphabet of the model has no "(", so "%(name)s" references do not  *)
(* occur: a "%" is either doubled or a syntax error).                      *)

\* value.replace('%%', '')
RECURSIVE RemovePairs(_)
RemovePairs(s) ==
    IF Len(s) < 2 THEN s
    ELSE IF s[1] = "%" /\ s[2] = "%" THEN RemovePairs(SubSeq(s, 3, Len(s)))
    ELSE <<s[1]>> \o RemovePairs(Tail(s))

\* BasicInterpolation.before_set : ValueError unless every "%" is doubled
before_set_ok(value) ==
    LET tmp == RemovePairs(value)
    IN  \A i \in 1..Len(tmp) : tmp[i] # "%"

\* BasicInterpolation.before_get : "%%" reads as "%", a lone "%" raises
RECURSIVE before_get(_)
before_get(raw) ==
    IF raw = <<>> THEN Ok(<<>>)
    ELSE IF raw[1] # "%" THEN
        LET r == before_get(Tail(raw))
        IN  IF r.ok THEN Ok(<<raw[1]>> \o r.val) ELSE r
    ELSE IF Len(raw) >= 2 /\ raw[2] = "%" THEN
        LET r == before_get(SubSeq(raw, 3, Len(raw)))
        IN  IF r.ok THEN Ok(<<"%">> \o r.val) ELSE r
    ELSE Raise("InterpolationSyntaxError")

----------------------------------------------------------------------------
(* The backing file and ConfigParser.read / ConfigParser.write             *)

EmptyFile == EmptyMap

\* opening without truncation (as mode 'r+' would): the old text stays
open_w_keep(old) == old

\* open(self._filename, 'w') : the file is truncated

open_w(old) == EmptyFile

\* ConfigParser.write : every section, every option, as "option = value";
\* the model keeps, per option, the text that follows the "="
cfg_write(c, fp) ==
    [s \in (DOMAIN fp) \cup (DOMAIN c) |->
        IF s \in DOMAIN c
        THEN [k \in (IF s \in DOMAIN fp THEN DOMAIN fp[s] ELSE {}) \cup (DOMAIN c[s]) |->
                 IF k \in DOMAIN c[s] THEN <<" ">> \o c[s][k] ELSE fp[s][k]]
        ELSE fp[s]]

\* ConfigParser.read on the existing parser: sections and options of the
\* file are added to or overwrite those in memory; option names go through
\* optionxform and values are stripped.  Nothing in memory is removed.
cfg_read(c, f) ==
    [s \in (DOMAIN c) \cup (DOMAIN f) |->
        IF s \in DOMAIN f
        THEN LET old == IF s \in DOMAIN c THEN c[s] ELSE EmptyMap
                 new == {optionxform(k) : k \in DOMAIN f[s]}
             IN  [k \in (DOMAIN old) \cup new |->
                     IF k \in new
                     THEN Strip(f[s][CHOOSE q \in DOMAIN f[s] : optionxform(q) = k])
                     ELSE old[k]]
        ELSE c[s]]

----------------------------------------------------------------------------
(* ConfigFile.get *)

\* the dict of a whole section, every value interpolated
SectionDict(c, section) ==
    LET sect == c[section]
    IN  IF \A k \in DOMAIN sect : before_get(sect[k]).ok
        THEN Ok([k \in DOMAIN sect |-> before_get(sect[k]).val])
        ELSE Raise("InterpolationSyntaxError")

get(c, section, field) ==
    LET fld == IF field.t \notin {"str", "none"} THEN StrV(Format(field)) ELSE field
    IN  IF section \notin DOMAIN c THEN Raise("KeyError")
        ELSE IF fld.t = "none" THEN SectionDict(c, section)
        ELSE IF optionxform(fld.s) \notin DOMAIN c[section] THEN Raise("KeyError")
        ELSE before_get(c[section][optionxform(fld.s)])

----------------------------------------------------------------------------
(* ConfigFile.set *)

\* How the filesystem treats the write of one set call: it completes, open()
\* raises (the file is untouched), or the write raises after open() has
\* truncated the file.
FsOutcomes == {"ok", "open_fails", "write_fails"}

\* the effect of set(section, field, value) on the parser and on the file,
\* and what the caller sees
set(c, f, section, field, value, fs) ==
    LET v == IF value.t # "str" THEN Format(value) ELSE value.s
    IN  IF section \notin DOMAIN c
            THEN [cfg |-> c, file |-> f, res |-> Raise("KeyError"), stored |-> FALSE]
        ELSE IF field.t # "str"
            THEN [cfg |-> c, file |-> f, res |-> Raise("TypeError"), stored |-> FALSE]
        ELSE IF ~before_set_ok(v)
            THEN [cfg |-> c, file |-> f, res |-> Raise("ValueError"), stored |-> FALSE]
        ELSE
            LET c1 == [c EXCEPT ![section] = Put(@, optionxform(field.s), v)]
            IN  CASE fs = "ok" ->
                       [cfg |-> c1, file |-> cfg_write(c1, open_w(f)),
                        res |-> Ok(<<>>), stored |-> TRUE]
                  [] fs = "open_fails" ->
                       [cfg |-> c1, file |-> f, res |-> Raise("OSError"), stored |-> TRUE]
                  [] OTHER ->
                       [cfg |-> c1, file |-> open_w(f), res |-> Raise("OSError"),
                        stored |-> TRUE]

----------------------------------------------------------------------------
(* The configuration store as a state machine *)

S_RANGES == "Channel ranges"

S_GAIN == "Gain settings"

\* the file the store is constructed from
InitFile ==
    [s \in {S_RANGES, S_GAIN} |->
        IF s = S_RANGES THEN [k \in {<<"1">>} |-> <<" ", "0", " ", "1">>]
        ELSE [k \in {<<"g">>} |-> <<" ", "7">>]]

\* arguments tried for set
SetSections == {S_RANGES, S_GAIN, "No such section"}

SetFields == {StrV(<<"1">>), StrV(<<"G">>), IntV(1)}

SetValues == {IntV(5), StrV(<<" ", "5">>), StrV(<<"%", "%">>), StrV(<<"%">>)}

\* what an external writer puts into the file
ExtKeys == {<<"1">>, <<"2">>}

ExtTexts == {<<" ", "9">>}

NoRT == [live |-> FALSE, section |-> "", field |-> <<>>, value |-> <<>>]

Called(op, r) == [op |-> op, ok |-> r.ok, err |-> r.err]

\* a completed set has overwritten whatever the external writer did before it
ExtBase == IF last.op = "set" /\ last.ok THEN EmptyMap ELSE ext

\* what the file holds for an option, as a read would return it
FileValue(f, s, k) ==
    IF s \in DOMAIN f /\ k \in DOMAIN f[s]
    THEN [present |-> TRUE, val |-> Strip(f[s][k])]
    ELSE [present |-> FALSE, val |-> <<>>]

\* what the parser holds for an option, as the file format can carry it
MemValue(c, s, k) ==
    IF s \in DOMAIN c /\ k \in DOMAIN c[s]
    THEN [present |-> TRUE, val |-> Strip(c[s][k])]
    ELSE [present |-> FALSE, val |-> <<>>]

\* ConfigFile.__init__ : an empty parser, then _load
ConfigInit(f) ==
    /\ file = f
    /\ cfg = cfg_read(EmptyMap, f)
    /\ last = [op |-> "init", ok |-> TRUE, err |-> ""]
    /\ nOps = 0
    /\ ext = EmptyMap
    /\ setLog = EmptyMap
    /\ single = TRUE
    /\ rt = NoRT

Set(section, field, value, fs) ==
    /\ nOps < MaxOps
    /\ LET r == set(cfg, file, section, field, value, fs)
           v == Format(value)
       IN  /\ (~r.stored => fs = "ok")
           /\ cfg' = r.cfg
           /\ file' = r.file
           /\ last' = Called("set", r.res)
           /\ rt' = IF r.res.ok
                    THEN [live |-> TRUE, section |-> section, field |-> field.s, value |-> v]
                    ELSE NoRT
           /\ setLog' = IF single /\ r.stored
                        THEN Put(setLog, <<section, optionxform(field.s)>>, v)
                        ELSE setLog
    /\ nOps' = nOps + 1
    /\ ext' = ExtBase
    /\ UNCHANGED <<single, instrVars>>

Reload ==
    /\ nOps < MaxOps
    /\ cfg' = cfg_read(cfg, file)
    /\ last' = [op |-> "reload", ok |-> TRUE, err |-> ""]
    /\ nOps' = nOps + 1
    /\ ext' = EmptyMap
    /\ setLog' = EmptyMap
    /\ single' = FALSE
    /\ UNCHANGED <<file, rt, instrVars>>

ExtStep(f2, s, k) ==
    /\ nOps < MaxOps
    /\ file' = f2
    /\ ext' = Put(ExtBase, <<s, k>>, FileValue(f2, s, k))
    /\ last' = [op |-> "ext", ok |-> TRUE, err |-> ""]
    /\ nOps' = nOps + 1
    /\ setLog' = EmptyMap
    /\ single' = FALSE
    /\ rt' = NoRT
    /\ UNCHANGED <<cfg, instrVars>>

\* another process writes "k = text" into a section of the file
ExtWrite(s, k, text) ==
    /\ s \in DOMAIN file
    /\ ExtStep([file EXCEPT ![s] = Put(@, k, text)], s, k)

\* another process removes an option from the file
ExtDelete(s, k) ==
    /\ s \in DOMAIN file
    /\ k \in DOMAIN file[s]
    /\ ExtStep([file EXCEPT ![s] = Drop(@, k)], s, k)

----------------------------------------------------------------------------
(* Numbers.  Python floats are modelled by exact rationals <<n, d>>, d > 0, *)
(* in lowest terms; the texts parsed are signed decimal integers (the      *)
(* alphabet of the model has no "." and no exponent).                      *)

Abs(x) == IF x < 0 THEN 0 - x ELSE x

RECURSIVE GCD(_, _)
GCD(a, b) == IF b = 0 THEN a ELSE GCD(b, a % b)

Rat(n, d) ==
    LET g == GCD(Abs(n), Abs(d))
        sgn == IF d < 0 THEN 0 - 1 ELSE 1
    IN  <<(sgn * n) \div g, (sgn * d) \div g>>

RInt(n) == <<n, 1>>

RMul(a, b) == Rat(a[1] * b[1], a[2] * b[2])

\* a / b for b # 0
RDiv(a, b) == Rat(a[1] * b[2], a[2] * b[1])

RLess(a, b) == a[1] * b[2] < b[1] * a[2]

\* Python's true division: ZeroDivisionError on a zero divisor
PyDiv(a, b) == IF b[1] = 0 THEN Raise("ZeroDivisionError") ELSE Ok(RDiv(a, b))

RECURSIVE DigitsValue(_)
DigitsValue(s) ==
    IF s = <<>> THEN 0 ELSE 10 * DigitsValue(SubSeq(s, 1, Len(s) - 1)) + DigitVal(s[Len(s)])

AllDigits(s) == s # <<>> /\ \A i \in 1..Len(s) : IsDigit(s[i])

\* int(text) : surrounding blanks are ignored, a sign is allowed
int(text) ==
    LET s == Strip(text)
    IN  IF AllDigits(s) THEN Ok(DigitsValue(s))
        ELSE IF s # <<>> /\ s[1] = "-" /\ AllDigits(Tail(s))
            THEN Ok(0 - DigitsValue(Tail(s)))
        ELSE Raise("ValueError")

\* float(text)
float(text) ==
    LET r == int(text)
    IN  IF r.ok THEN Ok(RInt(r.val)) ELSE r

\* text.split(" ") : every single blank separates, so two blanks in a row
\* give an empty token
RECURSIVE SplitAcc(_, _)
SplitAcc(s, cur) ==
    IF s = <<>> THEN <<cur>>
    ELSE IF Head(s) = " " THEN <<cur>> \o SplitAcc(Tail(s), <<>>)
    ELSE SplitAcc(Tail(s), Append(cur, Head(s)))

split(s) == SplitAcc(s, <<>>)

----------------------------------------------------------------------------
(* Conductance: ConductanceBuffer.get, SR830_T3._get_conductance and       *)
(* get_conductance                                                         *)

\* resistance_quantum = 25.818e3 in ConductanceBuffer.get
resistance_quantum_buffer == RInt(25818)

\* resistance_quantum = 25.8125e3 in SR830_T3._get_conductance
resistance_quantum_T3 == Rat(258125, 10)

\* resistance_quantum = 25.818e3 in get_conductance
resistance_quantum_fn == RInt(25818)

\* VoltageDivider.get of amplitude_true / AC_EXCITATION_* :
\* the raw amplitude divided by the division value
amplitude_true(s) == PyDiv(s.amplitude, s.division_value)

\* SR830_T3._get_conductance (the 'g' parameter of SR830_T3): no look at the
\* display; the current is taken from R
SR830_T3_get_conductance(s) ==
    LET i == RDiv(RInt(s.sig.R), s.ivgain)
        v_sample == amplitude_true(s)
    IN  IF ~v_sample.ok THEN v_sample
        ELSE LET q == PyDiv(i, v_sample.val)
             IN  IF ~q.ok THEN q ELSE Ok(<<RMul(q.val, resistance_quantum_T3)>>)

\* ConductanceBuffer.get (the 'conductance' parameter): the buffer of
\* channel 1, element by element
ConductanceBuffer_get(s) ==
    IF s.ch1_display # "X" THEN Raise("ValueError")
    ELSE LET ac_excitation == amplitude_true(s)
         IN  IF ~ac_excitation.ok THEN ac_excitation
             ELSE Ok([j \in 1..Len(s.buffer) |->
                        RMul(RDiv(RDiv(RInt(s.buffer[j]), s.ivgain), ac_excitation.val),
                             resistance_quantum_buffer)])

\* get_conductance(lockin, ac_excitation, iv_conv), the get_cmd of the 'g'
\* parameter added to lockin_topo, lockin_right, lockin_left: no look at
\* the display
get_conductance(s) ==
    LET i == RDiv(RInt(s.sig.X), s.ivgain)
        v_sample == amplitude_true(s)
    IN  IF ~v_sample.ok THEN v_sample
        ELSE LET q == PyDiv(i, v_sample.val)
             IN  IF ~q.ok THEN q ELSE Ok(<<RMul(q.val, resistance_quantum_fn)>>)

\* what the lock-in measures: X, Y and the magnitude R = sqrt(X^2 + Y^2)
Signals ==
    { [X |-> 3, Y |-> 4, R |-> 5], [X |-> 0 - 3, Y |-> 4, R |-> 5],
      [X |-> 1, Y |-> 0, R |-> 1], [X |-> 0, Y |-> 2, R |-> 2] }

Displays == {"X", "R", "X Noise"}

Amplitudes == {RInt(1), RInt(2)}

\* the I/V gains, in units of 1e5 V/A
Gains == {RInt(1), RInt(10)}

AcFactors == {RInt(0), RInt(1), RInt(10)}

\* what channel 1 shows, and so what its buffer records
Shown(d, sig) ==
    CASE d = "X" -> sig.X
      [] d = "R" -> sig.R
      [] OTHER -> 0

NoRead == [path |-> "none", res |-> Ok(<<>>)]

SrIdle ==
    /\ sr = [ch1_display |-> "X", sig |-> [X |-> 1, Y |-> 0, R |-> 1], buffer |-> <<1>>,
             amplitude |-> RInt(1), acf |-> RInt(1), division_value |-> RInt(1),
             ivgain |-> RInt(1)]
    /\ gres = NoRead

\* SR830_T3.__init__ : ivgain from the configuration, acfactor 1; display,
\* signal and amplitude are the instrument's
SrInit ==
    /\ \E d \in Displays, sig \in Signals, a \in Amplitudes, g \in Gains :
          sr = [ch1_display |-> d, sig |-> sig, buffer |-> <<Shown(d, sig)>>,
                amplitude |-> a, acf |-> RInt(1), division_value |-> RInt(1),
                ivgain |-> g]
    /\ gres = NoRead

ReadG ==
    /\ gres' = [path |-> "SR830_T3.g", res |-> SR830_T3_get_conductance(sr)]
    /\ UNCHANGED <<sr, cfgVars, rgVars, ctVars, unVars, slVars>>

ReadConductance ==
    /\ gres' = [path |-> "conductance", res |-> ConductanceBuffer_get(sr)]
    /\ UNCHANGED <<sr, cfgVars, rgVars, ctVars, unVars, slVars>>

ReadLockinG ==
    /\ gres' = [path |-> "lockin.g", res |-> get_conductance(sr)]
    /\ UNCHANGED <<sr, cfgVars, rgVars, ctVars, unVars, slVars>>

\* ch1_display is set; the buffer then records the new quantity
SetDisplay(d) ==
    /\ sr' = [sr EXCEPT !.ch1_display = d, !.buffer = <<Shown(d, sr.sig)>>]
    /\ gres' = NoRead
    /\ UNCHANGED <<cfgVars, rgVars, ctVars, unVars, slVars>>

\* the sample's response changes
Signal(sig) ==
    /\ sr' = [sr EXCEPT !.sig = sig, !.buffer = <<Shown(sr.ch1_display, sig)>>]
    /\ gres' = NoRead
    /\ UNCHANGED <<cfgVars, rgVars, ctVars, unVars, slVars>>

SetAmplitude(a) ==
    /\ sr' = [sr EXCEPT !.amplitude = a]
    /\ gres' = NoRead
    /\ UNCHANGED <<cfgVars, rgVars, ctVars, unVars, slVars>>

\* the acfactor setter of SR830_T3
acfactor_set(s, acfactor) == [s EXCEPT !.acf = acfactor, !.division_value = acfactor]

SetAcfactor(f) ==
    /\ sr' = acfactor_set(sr, f)
    /\ gres' = NoRead
    /\ UNCHANGED <<cfgVars, rgVars, ctVars, unVars, slVars>>

----------------------------------------------------------------------------
(* set_ranges *)

\* number of QDac channels in the model
NumChans == 2

Chans == 1..NumChans

\* a parameter's validator: the one it came with, or Numbers(min, max)
DefaultValidator == [set |-> FALSE, min |-> RInt(0), max |-> RInt(0)]

Numbers(min, max) == [set |-> TRUE, min |-> min, max |-> max]

\* qcodes' Numbers refuses a max_value that is not bigger than min_value
Numbers_ok(min, max) == RLess(min, max)

RECURSIVE SortedSeq(_)
SortedSeq(S) ==
    IF S = {} THEN <<>>
    ELSE LET m == CHOOSE x \in S : \A y \in S : x <= y
         IN  <<m>> \o SortedSeq(S \ {m})

\* len(minmax) != 2, with the bug of letting longer lists through
bad_length_lt(minmax) == Len(minmax) < 2

\* len(minmax) != 2
bad_length(minmax) == Len(minmax) # 2

\* the parameter whose validator is set, always the mapped one itself
validator_target_self(channel) == "self"

\* the parameter whose validator is set: v1 of a VoltageDivider, else the
\* mapped parameter itself
validator_target(channel) == IF channel = "divider" THEN "v1" ELSE "self"

\* set_validator on the target: the channel's own voltage parameter when it
\* is the mapped parameter or the v1 of the mapped VoltageDivider, else the
\* VoltageDivider
Install(vals, chan_id, channel, v) ==
    IF channel = "raw" \/ validator_target(channel) = "v1"
    THEN [vals EXCEPT !.raw[chan_id] = v]
    ELSE [vals EXCEPT !.div[chan_id] = v]

\* the loop of set_ranges over the channel ids still to visit
RECURSIVE set_ranges_loop(_, _, _, _)
set_ranges_loop(ids, ranges, dict, vals) ==
    IF ids = <<>> THEN [validators |-> vals, res |-> Ok(<<>>)]
    ELSE
        LET chan_id == Head(ids)
            key == FormatInt(chan_id)
        IN  IF key \notin DOMAIN ranges
            THEN set_ranges_loop(Tail(ids), ranges, dict, vals)
            ELSE
                LET minmax == split(ranges[key])
                IN  IF bad_length(minmax)
                    THEN [validators |-> vals, res |-> Raise("ValueError")]
                    ELSE
                        LET rangemin == float(minmax[1])
                            rangemax == float(minmax[2])
                        IN  IF ~rangemin.ok \/ ~rangemax.ok
                            THEN [validators |-> vals, res |-> Raise("ValueError")]
                            ELSE IF ~Numbers_ok(rangemin.val, rangemax.val)
                            THEN [validators |-> vals, res |-> Raise("TypeError")]
                            ELSE set_ranges_loop(Tail(ids), ranges, dict,
                                     Install(vals, chan_id, dict[chan_id],
                                             Numbers(rangemin.val, rangemax.val)))

\* set_ranges(qdac_channel_dictionary): the dictionary maps a channel id to
\* the channel's own voltage parameter ("raw") or to a VoltageDivider on it
\* ("divider"), and is visited in ascending order, as QDAC is built
set_ranges(c, dict, vals) ==
    LET ranges == get(c, S_RANGES, NoneV)
    IN  IF ~ranges.ok THEN [validators |-> vals, res |-> ranges]
        ELSE set_ranges_loop(SortedSeq(DOMAIN dict), ranges.val, dict, vals)

\* the texts tried for a channel's range
BoundTexts ==
    { <<"0", " ", "1">>, <<"-", "1", " ", "1">>, <<"1">>, <<"0", " ", "1", " ", "2">>,
      <<"x", " ", "1">>, <<"1", " ", "0">>, <<"0", " ", " ", "1">> }

\* the dictionaries tried: any channels, each raw or behind a divider
Dicts == UNION { [D -> {"raw", "divider"}] : D \in SUBSET Chans }

\* the validators a channel may carry before the call: the driver's own or
\* one set earlier
EarlierValidators == {DefaultValidator, Numbers(RInt(0 - 9), RInt(9))}

NoCall == [called |-> FALSE, dict |-> EmptyMap, res |-> Ok(<<>>),
           before |-> [raw |-> [c \in Chans |-> DefaultValidator],
                       div |-> [c \in Chans |-> DefaultValidator]]]

RgIdle ==
    /\ validators = [raw |-> [c \in Chans |-> DefaultValidator],
                     div |-> [c \in Chans |-> DefaultValidator]]
    /\ rres = NoCall

RgInit ==
    /\ \E r \in [Chans -> EarlierValidators] :
           validators = [raw |-> r, div |-> [c \in Chans |-> DefaultValidator]]
    /\ rres = NoCall

\* a configuration file with a 'Channel ranges' section
RangesFiles ==
    { [s \in {S_RANGES} |-> [k \in {FormatInt(c) : c \in D} |-> <<" ">> \o t[DigitsValue(k)]]] :
          D \in SUBSET Chans, t \in [Chans -> BoundTexts] }

\* one call of set_ranges, from any validators and any 'Channel ranges'
SetRanges(dict) ==
    /\ ~rres.called
    /\ LET r == set_ranges(cfg, dict, validators)
       IN  /\ validators' = r.validators
           /\ rres' = [called |-> TRUE, dict |-> dict, res |-> r.res, before |-> validators]
    /\ UNCHANGED <<cfgVars, srVars, ctVars, unVars, slVars>>

----------------------------------------------------------------------------
(* Decadac_T3: the cutters *)

S_CHANPAR == "Channel Parameters"

K_LEFT_CUTTER == <<"l", "e", "f", "t", " ", "c", "u", "t", "t", "e", "r">>

K_RIGHT_CUTTER == <<"r", "i", "g", "h", "t", " ", "c", "u", "t", "t", "e", "r">>

\* largest voltage of the model, in units of 0.01 V
MaxCentiVolt == 6

CentiVolts == (0 - MaxCentiVolt)..MaxCentiVolt

\* the 0.05 of get_cutters, in units of 0.01 V
CutterTolerance == 5

DacChans == {1, 2}

\* Python's None, and a returned number, as the value of a result
PyNone == <<>>

PyNum(x) == <<x>>

\* Decadac_T3.get_cutters : the left voltage, or a printed message and None
get_cutters(c, v) ==
    LET dic == get(c, S_CHANPAR, NoneV)
    IN  IF ~dic.ok THEN dic
        ELSE IF {K_LEFT_CUTTER, K_RIGHT_CUTTER} \ (DOMAIN dic.val) # {}
            THEN Raise("KeyError")
        ELSE LET l == int(dic.val[K_LEFT_CUTTER])
                 r == int(dic.val[K_RIGHT_CUTTER])
             IN  IF ~l.ok THEN l
                 ELSE IF ~r.ok THEN r
                 ELSE IF l.val \notin DOMAIN v \/ r.val \notin DOMAIN v
                     THEN Raise("IndexError")
                 ELSE LET vleft == v[l.val]
                          vright == v[r.val]
                      IN  IF Abs(vleft - vright) > CutterTolerance
                          THEN Ok(PyNone)
                          ELSE Ok(PyNum(vleft))

\* Decadac_T3.set_cutters
set_cutters(c, v, voltage_value) ==
    LET dic == get(c, S_CHANPAR, NoneV)
        l == int(dic.val[K_LEFT_CUTTER]).val
        r == int(dic.val[K_RIGHT_CUTTER]).val
    IN  [ch \in DOMAIN v |-> IF ch \in {l, r} THEN voltage_value ELSE v[ch]]

\* get_parser=float applied to what the get_cmd returned: float(None) raises
get_parser_float(raw) ==
    IF ~raw.ok THEN raw
    ELSE IF raw.val = PyNone THEN Raise("TypeError")
    ELSE raw

\* the 'cutters' parameter: get_cmd=self.get_cutters, get_parser=float
cutters_get(c, v) == get_parser_float(get_cutters(c, v))

CuttersFile ==
    [s \in {S_CHANPAR} |->
        [k \in {K_LEFT_CUTTER, K_RIGHT_CUTTER} |->
            IF k = K_LEFT_CUTTER THEN <<" ", "1">> ELSE <<" ", "2">>]]

CtIdle ==
    /\ volt = [ch \in DacChans |-> 0]
    /\ cres = NoRead

CtInit ==
    /\ volt \in [DacChans -> {0, 1}]
    /\ cres = NoRead

\* dac.cutters(voltage)
SetCutters(x) ==
    /\ volt' = set_cutters(cfg, volt, x)
    /\ cres' = NoRead
    /\ UNCHANGED <<cfgVars, srVars, rgVars, unVars, slVars>>

\* dac.lcut(voltage), dac.rcut(voltage): one channel alone
SetChannel(ch, x) ==
    /\ volt' = [volt EXCEPT ![ch] = x]
    /\ cres' = NoRead
    /\ UNCHANGED <<cfgVars, srVars, rgVars, unVars, slVars>>

\* dac.cutters() : the parameter is read
ReadCutters ==
    /\ cres' = [path |-> "cutters", res |-> cutters_get(cfg, volt)]
    /\ UNCHANGED <<volt, cfgVars, srVars, rgVars, unVars, slVars>>

\* dac.get_cutters() : the method is called
CallGetCutters ==
    /\ cres' = [path |-> "get_cutters", res |-> get_cutters(cfg, volt)]
    /\ UNCHANGED <<volt, cfgVars, srVars, rgVars, unVars, slVars>>

----------------------------------------------------------------------------
(* used_channels and check_unused_qdac_channels *)

S_LABELS == "QDac Channel Labels"

\* range(1, 48)
RangeStart == 1

RangeStop == 48

\* the range with its last channel missing
channel_range_short == [i \in 1..(RangeStop - RangeStart - 1) |-> RangeStart + i - 1]

\* list(range(1, 48))
channel_range == [i \in 1..(RangeStop - RangeStart) |-> RangeStart + i - 1]

\* every key of a dict parsed by int(), or the first failure
IntKeys(d) ==
    IF \A k \in DOMAIN d : int(k).ok
    THEN Ok({int(k).val : k \in DOMAIN d})
    ELSE Raise("ValueError")

\* used_channels() : the labelled channels as sorted ints
used_channels(c) ==
    LET l_chs == get(c, S_LABELS, NoneV)
    IN  IF ~l_chs.ok THEN l_chs
        ELSE LET ks == IntKeys(l_chs.val)
             IN  IF ~ks.ok THEN ks ELSE Ok(SortedSeq(ks.val))

InList(x, l) == \E i \in 1..Len(l) : l[i] = x

RECURSIVE SelectNotIn(_, _)
SelectNotIn(l, used) ==
    IF l = <<>> THEN <<>>
    ELSE IF InList(Head(l), used) THEN SelectNotIn(Tail(l), used)
    ELSE <<Head(l)>> \o SelectNotIn(Tail(l), used)

\* qdac.parameters['ch{:02}_v'.format(ch)].get_latest() : the channels the
\* model does not list are at 0 V
get_latest(v, ch) == IF ch \in DOMAIN v THEN v[ch] ELSE 0

RECURSIVE SelectPositive(_, _)
SelectPositive(l, v) ==
    IF l = <<>> THEN <<>>
    ELSE IF get_latest(v, Head(l)) > 0 THEN <<Head(l)>> \o SelectPositive(Tail(l), v)
    ELSE SelectPositive(Tail(l), v)

\* check_unused_qdac_channels() : the channels it looks at, in order, and
\* those it warns about
check_unused_qdac_channels(c, v) ==
    LET used == used_channels(c)
    IN  IF ~used.ok THEN [checked |-> <<>>, warned |-> <<>>, res |-> used]
        ELSE LET chs == SelectNotIn(channel_range, used.val)
             IN  [checked |-> chs, warned |-> SelectPositive(chs, v), res |-> Ok(<<>>)]

\* the label keys tried
LabelKeys == { <<"0">>, <<"1">>, <<"0", "2">>, <<"4", "6">>, <<"4", "7">>, <<"4", "8">> }

LabelFiles ==
    { [s \in {S_LABELS} |-> [k \in K |-> <<" ", "a">>]] : K \in SUBSET LabelKeys }

\* the latest voltages tried: all zero but one channel
LatestChoices ==
    { [ch \in {hot} |-> x] : hot \in {1, 47}, x \in {0 - 1, 0, 1} }

NoCheck == [done |-> FALSE, checked |-> <<>>, warned |-> <<>>, res |-> Ok(<<>>)]

UnIdle ==
    /\ latest = EmptyMap
    /\ ures = NoCheck

CheckUnused ==
    /\ LET r == check_unused_qdac_channels(cfg, latest)
       IN  ures' = [done |-> TRUE, checked |-> r.checked, warned |-> r.warned, res |-> r.res]
    /\ UNCHANGED <<latest, cfgVars, srVars, rgVars, ctVars, slVars>>

\* a channel's voltage is changed and read back
LatestChange(l) ==
    /\ latest' = l
    /\ ures' = NoCheck
    /\ UNCHANGED <<cfgVars, srVars, rgVars, ctVars, slVars>>

----------------------------------------------------------------------------
(* bias_channels, qdac_slopes *)

S_RAMP == "Ramp speeds"

K_RAMP_QDAC == <<"m", "a", "x", " ", "r", "a", "m", "p", "s", "p", "e", "e", "d", " ", "q", "d", "a", "c">>

K_RAMP_BG == <<"m", "a", "x", " ", "r", "a", "m", "p", "s", "p", "e", "e", "d", " ", "b", "g">>

K_RAMP_BIAS == <<"m", "a", "x", " ", "r", "a", "m", "p", "s", "p", "e", "e", "d", " ", "b", "i", "a", "s">>

K_BACKGATE == <<"b", "a", "c", "k", "g", "a", "t", "e", " ", "c", "h", "a", "n", "n", "e", "l">>

K_TOPO_BIAS == <<"t", "o", "p", "o", " ", "b", "i", "a", "s", " ", "c", "h", "a", "n", "n", "e", "l">>

K_LEFT_BIAS == <<"l", "e", "f", "t", " ", "s", "e", "n", "s", "o", "r", " ", "b", "i", "a", "s", " ", "c", "h", "a", "n", "n", "e", "l">>

K_RIGHT_BIAS == <<"r", "i", "g", "h", "t", " ", "s", "e", "n", "s", "o", "r", " ", "b", "i", "a", "s", " ", "c", "h", "a", "n", "n", "e", "l">>

\* int(configs.get(section, field))
get_int(c, section, field) ==
    LET r == get(c, section, StrV(field))
    IN  IF ~r.ok THEN r ELSE int(r.val)

\* float(configs.get(section, field))
get_float(c, section, field) ==
    LET r == get(c, section, StrV(field))
    IN  IF ~r.ok THEN r ELSE float(r.val)

\* bias_channels() : the three gets, then the three conversions
bias_channels(c) ==
    LET bias_chan1 == get(c, S_CHANPAR, StrV(K_TOPO_BIAS))
        bias_chan2 == get(c, S_CHANPAR, StrV(K_LEFT_BIAS))
        bias_chan3 == get(c, S_CHANPAR, StrV(K_RIGHT_BIAS))
    IN  IF ~bias_chan1.ok THEN bias_chan1
        ELSE IF ~bias_chan2.ok THEN bias_chan2
        ELSE IF ~bias_chan3.ok THEN bias_chan3
        ELSE LET i1 == int(bias_chan1.val)
                 i2 == int(bias_chan2.val)
                 i3 == int(bias_chan3.val)
             IN  IF ~i1.ok THEN i1
                 ELSE IF ~i2.ok THEN i2
                 ELSE IF ~i3.ok THEN i3
                 ELSE Ok(<<i1.val, i2.val, i3.val>>)

\* for ii in chans: d[ii] = slope
RECURSIVE PutAll(_, _, _)
PutAll(d, chans, slope) ==
    IF chans = <<>> THEN d
    ELSE PutAll(Put(d, Head(chans), slope), Tail(chans), slope)

\* qdac_slopes() : every used channel gets qdac_slope, then the backgate
\* channel and the bias channels are assigned bias_slope
qdac_slopes(c) ==
    LET qdac_slope == get_float(c, S_RAMP, K_RAMP_QDAC)
        bg_slope == get_float(c, S_RAMP, K_RAMP_BG)
        bias_slope == get_float(c, S_RAMP, K_RAMP_BIAS)
        used == used_channels(c)
        backgate == get_int(c, S_CHANPAR, K_BACKGATE)
        biases == bias_channels(c)
    IN  IF ~qdac_slope.ok THEN qdac_slope
        ELSE IF ~bg_slope.ok THEN bg_slope
        ELSE IF ~bias_slope.ok THEN bias_slope
        ELSE IF ~used.ok THEN used
        ELSE IF ~backgate.ok THEN backgate
        ELSE IF ~biases.ok THEN biases
        ELSE LET zipped == PutAll(EmptyMap, used.val, qdac_slope.val)
                 with_bg == Put(zipped, backgate.val, bias_slope.val)
             IN  Ok(PutAll(with_bg, biases.val, bias_slope.val))

\* highest QDac channel number of the configurations tried
MaxSlopeChan == 3

SlopeChans == 1..MaxSlopeChan

\* the ramp speeds tried, as (qdac, bg, bias) : all different, or the
\* backgate's equal to another
RampTexts ==
    { <<"1", "2", "3">>, <<"1", "3", "3">>, <<"1", "1", "3">>, <<"2", "2", "2">> }

\* the text of a configured backgate channel : a channel number, or a word
BackgateTexts == {FormatInt(ch) : ch \in SlopeChans} \cup {<<"x">>}

SlopesFile(ramp, bg, topo, left, right, labelled) ==
    [s \in {S_RAMP, S_CHANPAR, S_LABELS} |->
        CASE s = S_RAMP ->
                 [k \in {K_RAMP_QDAC, K_RAMP_BG, K_RAMP_BIAS} |->
                     CASE k = K_RAMP_QDAC -> <<" ", ramp[1]>>
                       [] k = K_RAMP_BG -> <<" ", ramp[2]>>
                       [] OTHER -> <<" ", ramp[3]>>]
          [] s = S_CHANPAR ->
                 [k \in {K_BACKGATE, K_TOPO_BIAS, K_LEFT_BIAS, K_RIGHT_BIAS} |->
                     CASE k = K_BACKGATE -> <<" ">> \o bg
                       [] k = K_TOPO_BIAS -> <<" ">> \o FormatInt(topo)
                       [] k = K_LEFT_BIAS -> <<" ">> \o FormatInt(left)
                       [] OTHER -> <<" ">> \o FormatInt(right)]
          [] OTHER -> [k \in {FormatInt(ch) : ch \in labelled} |-> <<" ", "a">>]]

SlopesFiles ==
    { SlopesFile(ramp, bg, topo, left, right, labelled) :
          ramp \in RampTexts, bg \in BackgateTexts,
          topo \in SlopeChans, left \in SlopeChans, right \in SlopeChans,
          labelled \in SUBSET SlopeChans }

NoSlopes == [called |-> FALSE, res |-> Ok(<<>>)]

SlIdle == qres = NoSlopes

\* QDAC_SLOPES = qdac_slopes() : run once, when the module is loaded
QdacSlopes ==
    /\ ~qres.called
    /\ qres' = [called |-> TRUE, res |-> qdac_slopes(cfg)]
    /\ UNCHANGED <<cfgVars, srVars, rgVars, ctVars, unVars>>

----------------------------------------------------------------------------
(* Specifications *)

\* the configuration store, one external writer and a failing filesystem
Init ==
    /\ ConfigInit(InitFile)
    /\ SrIdle /\ RgIdle /\ CtIdle /\ UnIdle /\ SlIdle

Next ==
    \/ \E s \in SetSections, f \in SetFields, v \in SetValues, fs \in FsOutcomes :
           Set(s, f, v, fs)
    \/ Reload
    \/ \E s \in {S_RANGES, S_GAIN}, k \in ExtKeys, x \in ExtTexts : ExtWrite(s, k, x)
    \/ \E s \in {S_RANGES, S_GAIN}, k \in ExtKeys : ExtDelete(s, k)

Spec == Init /\ [][Next]_vars

\* a lock-in and its three conductance reads
InitConductance ==
    /\ ConfigInit(InitFile)
    /\ SrInit /\ RgIdle /\ CtIdle /\ UnIdle /\ SlIdle

NextConductance ==
    \/ ReadG
    \/ ReadConductance
    \/ ReadLockinG
    \/ \E d \in Displays : SetDisplay(d)
    \/ \E sig \in Signals : Signal(sig)
    \/ \E a \in Amplitudes : SetAmplitude(a)
    \/ \E f \in AcFactors : SetAcfactor(f)

SpecConductance == InitConductance /\ [][NextConductance]_vars

\* set_ranges on every 'Channel ranges' section of the model
InitRanges ==
    /\ \E f \in RangesFiles : ConfigInit(f)
    /\ SrIdle /\ RgInit /\ CtIdle /\ UnIdle /\ SlIdle

NextRanges == \E d \in Dicts : SetRanges(d)

SpecRanges == InitRanges /\ [][NextRanges]_vars

\* the Decadac's cutters
InitCutters ==
    /\ ConfigInit(CuttersFile)
    /\ SrIdle /\ RgIdle /\ CtInit /\ UnIdle /\ SlIdle

NextCutters ==
    \/ \E x \in CentiVolts : SetCutters(x)
    \/ \E ch \in DacChans, x \in CentiVolts : SetChannel(ch, x)
    \/ ReadCutters
    \/ CallGetCutters

SpecCutters == InitCutters /\ [][NextCutters]_vars

\* the check of the unused QDac channels
InitUnused ==
    /\ \E f \in LabelFiles : ConfigInit(f)
    /\ SrIdle /\ RgIdle /\ CtIdle /\ SlIdle
    /\ latest \in LatestChoices
    /\ ures = NoCheck

NextUnused ==
    \/ CheckUnused
    \/ \E l \in LatestChoices : LatestChange(l)

SpecUnused == InitUnused /\ [][NextUnused]_vars

\* the ramp speeds of the QDac channels
InitSlopes ==
    /\ \E f \in SlopesFiles : ConfigInit(f)
    /\ SrIdle /\ RgIdle /\ CtIdle /\ UnIdle /\ SlIdle

NextSlopes == QdacSlopes

SpecSlopes == InitSlopes /\ [][NextSlopes]_vars
----------------------------------------------------------------------------
(* Properties of the configuration store *)

AllSections == {S_RANGES, S_GAIN}

AllKeys == {<<"1">>, <<"2">>, <<"g">>}

\* get(section, field) finds the option (it may still fail to interpolate it)
Visible(c, s, k) == get(c, s, StrV(k)).err # "KeyError"

\* C1: after set(section, field, value) has returned, get(section, field)
\* returns exactly value, and it still does after a following reload() when
\* nothing else modified the file in between.
C1_RoundTrip ==
    rt.live => get(cfg, rt.section, StrV(rt.field)) = Ok(rt.value)

\* C2: a set call that fails leaves every value returned by get unchanged,
\* and a set call that returns normally leaves the file in agreement with
\* the in-memory store.
C2_FailedSetChangesNothing ==
    [][(last'.op = "set" /\ nOps' = nOps + 1) =>
          IF last'.ok
          THEN \A s \in AllSections, k \in AllKeys :
                   FileValue(file', s, k) = MemValue(cfg', s, k)
          ELSE \A s \in SetSections, k \in AllKeys :
                   get(cfg', s, StrV(k)) = get(cfg, s, StrV(k))]_vars

\* C3: after reload() the sections and fields visible through get are
\* exactly those present in the backing file.
C3_ReloadReplaces ==
    last.op = "reload" =>
        /\ DOMAIN cfg = DOMAIN file
        /\ \A s \in AllSections, k \in AllKeys :
               Visible(cfg, s, k) <=> FileValue(file, s, k).present

\* C4: when a set returns normally, every field an external writer changed
\* since the store's last load holds the in-memory value again (so an
\* external value that differs from the in-memory one is gone from the file,
\* whatever field or section the set was for); and while set is the only
\* operation that ever touched the file, the file holds, for every field
\* that was set, the value of the last set of that field.
C4_LostUpdate ==
    (last.op = "set" /\ last.ok) =>
        /\ \A e \in DOMAIN ext :
               /\ FileValue(file, e[1], e[2]) = MemValue(cfg, e[1], e[2])
               /\ (ext[e] # MemValue(cfg, e[1], e[2]) =>
                       FileValue(file, e[1], e[2]) # ext[e])
        /\ single =>
               \A e \in DOMAIN setLog :
                   FileValue(file, e[1], e[2]) =
                       [present |-> TRUE, val |-> Strip(setLog[e])]

\* a set for one section has just erased an external change to another
C4_Witness ==
    /\ last.op = "set" /\ last.ok
    /\ \E e \in DOMAIN ext :
           /\ e[1] # rt.section
           /\ ext[e].present
           /\ FileValue(file, e[1], e[2]) # ext[e]

----------------------------------------------------------------------------
(* Properties of the conductance reads *)

\* g = (X / G) / V_exc * R_Q with R_Q = 25818 Ohm and V_exc the raw
\* amplitude over the division value
ExpectedConductance(s) ==
    RMul(RDiv(RDiv(RInt(s.sig.X), s.ivgain), RDiv(s.amplitude, s.division_value)),
         RInt(25818))

\* C5: every conductance read fails while channel 1 of the lock-in is not
\* set to show X.
C5_NonXReadsFail ==
    (gres.path # "none" /\ sr.ch1_display # "X") => ~gres.res.ok

\* C6: every conductance read that returns gives (X / G) / V_exc * R_Q with
\* R_Q = 25818 Ohm, so the three paths agree on the same inputs.
C6_SameFormula ==
    (gres.path # "none" /\ gres.res.ok) =>
        \A j \in 1..Len(gres.res.val) : gres.res.val[j] = ExpectedConductance(sr)

----------------------------------------------------------------------------
(* Properties of set_ranges *)

HasKey(c) == FormatInt(c) \in DOMAIN cfg[S_RANGES]

BoundText(c) == get(cfg, S_RANGES, IntV(c)).val

\* exactly two space-separated numeric tokens
TwoNumeric(text) ==
    LET m == split(text)
    IN  Len(m) = 2 /\ float(m[1]).ok /\ float(m[2]).ok

\* a bound "min max" that a validator can be made of
WellFormed(text) ==
    /\ TwoNumeric(text)
    /\ RLess(float(split(text)[1]).val, float(split(text)[2]).val)

BoundOf(c) == Numbers(float(split(BoundText(c))[1]).val, float(split(BoundText(c))[2]).val)

Bounded(c) == c \in DOMAIN rres.dict /\ HasKey(c) /\ WellFormed(BoundText(c))

\* C7 as stated: after a call of set_ranges, the channel's own parameter
\* carries [min, max] for every mapped channel with a bound "min max",
\* every other one carries what it carried before, and no divider's
\* validator has changed.
C7_ExactlyTheBounded ==
    rres.called =>
        /\ validators.div = rres.before.div
        /\ \A c \in Chans :
               IF Bounded(c)
               THEN validators.raw[c] = BoundOf(c)
               ELSE validators.raw[c] = rres.before.raw[c]

\* C7 amended: no divider's validator ever changes and a channel's own
\* parameter changes only to the [min, max] of its bound; when set_ranges
\* returns normally every mapped channel with a configured bound carries
\* it; when it raises, the mapped channels before the offending one carry
\* theirs and the offending one and those after it carry what they did.
C7_Amended ==
    rres.called =>
        /\ validators.div = rres.before.div
        /\ \A c \in Chans :
               validators.raw[c] # rres.before.raw[c] =>
                   Bounded(c) /\ validators.raw[c] = BoundOf(c)
        /\ rres.res.ok =>
               \A c \in DOMAIN rres.dict :
                   HasKey(c) => WellFormed(BoundText(c)) /\ validators.raw[c] = BoundOf(c)
        /\ ~rres.res.ok =>
               \E c0 \in DOMAIN rres.dict :
                   /\ HasKey(c0) /\ ~WellFormed(BoundText(c0))
                   /\ \A c \in DOMAIN rres.dict :
                          (c < c0 /\ HasKey(c)) => validators.raw[c] = BoundOf(c)
                   /\ \A c \in Chans :
                          c >= c0 => validators.raw[c] = rres.before.raw[c]

\* a bound installed through a divider, beside a channel without a bound
C7_Witness ==
    /\ rres.called /\ rres.res.ok
    /\ \E c, d \in DOMAIN rres.dict :
           /\ rres.dict[c] = "divider" /\ HasKey(c)
           /\ validators.raw[c] # rres.before.raw[c]
           /\ ~HasKey(d)

\* C8: when a mapped channel's configured bound is not exactly two
\* space-separated numeric tokens, the call of set_ranges raises.
C8_MalformedRaises ==
    (rres.called /\ \E c \in DOMAIN rres.dict : HasKey(c) /\ ~TwoNumeric(BoundText(c)))
        => ~rres.res.ok

\* the single token "1" made the call raise
C8_Witness ==
    /\ rres.called /\ ~rres.res.ok /\ rres.res.err = "ValueError"
    /\ \E c \in DOMAIN rres.dict : HasKey(c) /\ BoundText(c) = <<"1">>

----------------------------------------------------------------------------
(* Properties of the cutters *)

\* C9: a read of the cutters raises when left and right differ by more than
\* 0.05 V, and returns the left voltage otherwise.
C9_MismatchRaises ==
    cres.path # "none" =>
        IF Abs(volt[1] - volt[2]) > CutterTolerance
        THEN ~cres.res.ok
        ELSE cres.res = Ok(PyNum(volt[1]))

----------------------------------------------------------------------------
(* Properties of the unused-channel check *)

Count(x, l) == Cardinality({i \in 1..Len(l) : l[i] = x})

UsedSet == IntKeys(get(cfg, S_LABELS, NoneV).val).val

\* C10: the check looks exactly once at every channel of 1..47 that is not
\* a used channel, and at no other channel.
C10_ExactComplement ==
    ures.done =>
        /\ ures.res.ok
        /\ \A c \in (0 - 1)..(RangeStop + 2) :
               Count(c, ures.checked) = IF c \in 1..47 /\ c \notin UsedSet THEN 1 ELSE 0

\* both ends of the range are unused and looked at, with used channels
\* inside and outside the range
C10_Witness ==
    /\ ures.done
    /\ Count(1, ures.checked) = 1 /\ Count(47, ures.checked) = 1
    /\ {0, 2, 46, 48} \subseteq UsedSet

----------------------------------------------------------------------------
(* Properties of the divider of the lock-in *)

\* C11: a division value of 0 is rejected: after any sequence of
\* assignments to acfactor, neither acfactor nor the division value of
\* amplitude_true is 0.
C11_ZeroRejected ==
    /\ sr.acf # RInt(0)
    /\ sr.division_value # RInt(0)

----------------------------------------------------------------------------
(* Properties of the ramp speeds *)

SlopeOf(k) == get_float(cfg, S_RAMP, k).val

BiasSet == {bias_channels(cfg).val[i] : i \in 1..3}

BackgateChannel == get_int(cfg, S_CHANPAR, K_BACKGATE).val

\* C12: in the dict qdac_slopes returns, every used channel that is neither
\* a bias channel nor the backgate has 'max rampspeed qdac', every bias
\* channel has 'max rampspeed bias', and the backgate channel, when it is
\* not a bias channel, has 'max rampspeed bg'.
C12_SlopePerKind ==
    (qres.called /\ qres.res.ok) =>
        LET d == qres.res.val
        IN  /\ \A ch \in UsedSet \ (BiasSet \cup {BackgateChannel}) :
                   ch \in DOMAIN d /\ d[ch] = SlopeOf(K_RAMP_QDAC)
            /\ \A ch \in BiasSet :
                   ch \in DOMAIN d /\ d[ch] = SlopeOf(K_RAMP_BIAS)
            /\ BackgateChannel \notin BiasSet =>
                   /\ BackgateChannel \in DOMAIN d
                   /\ d[BackgateChannel] = SlopeOf(K_RAMP_BG)

====
